---- MODULE Spec2Model ----
(***************************************************************************)
(* FlixFinder recommendation engine: model persistence (local pickle file, *)
(* Django storage object, module-level cache), the prediction service, the *)
(* genre fallback and the RecommendMoviesView orchestrator.                *)
(* Further specifications cover the rating requests and the averages they *)
(* maintain, the paging of GenresView and the password-reset mail task.    *)
(*                                                                         *)
(* Scores are kept in tenths (DecimalField with one decimal place), so     *)
(* 0.5 is 5 and 5.0 is 50.                                                 *)
(***************************************************************************)
EXTENDS Integers, Sequences, FiniteSets, TLC

\* ------------------------------------------------------------------ bounds
NumUsers == 2
NumMovies == 8
MaxTrain == 2
MaxN == 2
NumLoaders == 2
NumWriters == 2
NumRateMovies == 2
MaxLoads == 2
NumGenres == 3
MaxGenreMovies == 12
MaxGenreEdits == 2
NumTasks == 2

\* ------------------------------------------------------- program constants
RatingThreshold == 5
DefaultN == 10
RatingScaleMin == 5
RatingScaleMax == 50
RandomState == 42
BatchSize == 10
MaxRetries == 3

Users == 1..NumUsers
Movies == 1..NumMovies
Loaders == 1..NumLoaders
Writers == 1..NumWriters

\* A trained SVD object: the training run that produced it, the ratings
\* snapshot it was fitted on and the seed of its random initialisation.  The three values below share that shape.
None == [ver |-> 0, snap |-> {}, seed |-> 0]       \* _cached_model = None
NoFile == [ver |-> 0, snap |-> {}, seed |-> 0]     \* no file at the path / key
Partial == [ver |-> -1, snap |-> {}, seed |-> 0]   \* file opened 'wb', pickle not complete

VARIABLES
    users,          \* User rows that exist
    ratings,        \* Rating rows: records [user, movie, score]
    localFile,      \* BASE_DIR/recommendations/models/svd_model.pkl
    storageObj,     \* default_storage key recommendations/models/svd_model.pkl
    cachedModel,    \* utils._cached_model of the serving process
    avgRating,      \* Movie.average_rating, in hundredths
    trainSeq,       \* number of training runs started so far
    resp,           \* what the last completed call did and returned
    lastLoaded,     \* model of the last successful load_model since the last
                    \* train_and_save_model of this process, else None
    justSaved,      \* model of a train_and_save_model that returned and that
                    \* no load_model has followed yet, else None
    savedOver,      \* the cache slot as that train_and_save_model found it
    cmdSaved,       \* model saved by the train_model command, while no later
                    \* training run has started, else None
    tpc, talgo,     \* trainer thread: position and the fitted model
    lpc,            \* loader threads: position inside load_model
    lmodel,         \* ... the local variable model (or what a failed read met)
    lcalls,         \* ... calls started
    lafter,         \* ... the save that had returned when the call started
    lhad,           \* ... whether a complete artifact existed at that time
    lseq,           \* ... trainSeq when the call returned
    lret,           \* ... the value returned
    anyFailed,      \* some average recomputation has raised so far
    wpc,            \* rating writers: position inside the request
    wmode,          \* ... "rate" (inside update_or_create's transaction)
                    \*     or "create" (POST /ratings/, autocommit)
    wscore,         \* ... the score submitted
    wmem,           \* ... average_rating of the Movie instance in memory
    wagg,           \* ... the aggregate computed by update_average_rating
    lock,           \* writer whose open transaction has updated the movie row
    genreTotal,     \* GenresView: number of movies each genre has
    genreOffset,    \* ... cache entry genre_<pk>_offset, or NoOffset
    genreShown,     \* ... movies returned since the offset last stood at 0
    genreClean,     \* ... no movie joined or left the genre since then
    genreEdits,     \* ... additions and removals so far
    mailPc,         \* password-reset tasks: "idle", "queued", "done",
                    \*     "failed" or "skipped"
    mailUser,       \* ... the user_id argument
    mailRetries,    \* ... self.request.retries
    mailAttempts,   \* ... calls of _send_email made so far
    mailSent        \* ... calls of _send_email that returned

vars == <<users, ratings, avgRating, localFile, storageObj, cachedModel,
          trainSeq, resp, lastLoaded, justSaved, savedOver, cmdSaved,
          tpc, talgo, lpc, lmodel, lcalls, lafter, lhad, lseq, lret,
          anyFailed, wpc, wmode, wscore, wmem, wagg, lock,
          genreTotal, genreOffset, genreShown, genreClean, genreEdits,
          mailPc, mailUser, mailRetries, mailAttempts, mailSent>>

engineVars == <<localFile, storageObj, cachedModel>>
shelfVars == <<genreTotal, genreOffset, genreShown, genreClean, genreEdits>>
mailVars == <<mailPc, mailUser, mailRetries, mailAttempts, mailSent>>
writerVars == <<anyFailed, wpc, wmode, wscore, wmem, wagg, lock, shelfVars,
                mailVars>>
threadVars == <<tpc, talgo, lpc, lmodel, lcalls, lafter, lhad, lseq, lret,
                writerVars>>

\* ------------------------------------------------------------- the database
\* Rating.score of the rows present at start-up (imported data).
InitScore(u, m) == 5 * ((3 * u + 2 * m + 6) % 11)

\* The rows a user holds at start-up: a run of the catalogue that is empty,
\* at the view's threshold, just above it, or reaches the end of the catalogue.
InitRated(u) ==
    {{m \in Movies : u <= m /\ m < u + k} :
        k \in {0, RatingThreshold, RatingThreshold + 1, NumMovies}}

\* One user's rows vary over InitRated; every other user sits at the threshold.
OtherRated(u) == {m \in Movies : u <= m /\ m < u + RatingThreshold}

RowsOf(u, S) == {[user |-> u, movie |-> m, score |-> InitScore(u, m)] : m \in S}

\* Rating.objects.filter(user=user).count()
RatingCount(u) == Cardinality({r \in ratings : r.user = u})

\* Rating.objects.filter(user_id=user_id).values_list('movie__id', flat=True)
RatedBy(u) == {r.movie : r \in {x \in ratings : x.user = u}}


RECURSIVE SumScores(_)
SumScores(S) ==
    IF S = {} THEN 0
    ELSE LET r == CHOOSE x \in S : TRUE IN r.score + SumScores(S \ {r})

\* Decimal quantize to two places, ROUND_HALF_EVEN: num/den in hundredths.
RoundHalfEven(num, den) ==
    LET q == num \div den
        r == num % den
    IN  IF 2 * r > den \/ (2 * r = den /\ q % 2 = 1) THEN q + 1 ELSE q

\* Movie.update_average_rating: Avg('score') over the movie's rows, or 0.00.
AverageOf(rows, m) ==
    LET S == {r \in rows : r.movie = m}
    IN  IF S = {} THEN 0 ELSE RoundHalfEven(10 * SumScores(S), Cardinality(S))

\* --------------------------------------------------- model persistence layer
\* train_and_save_model steps 1-2: fit SVD(random_state=42) on all ratings.
\* Surprise builds a trainset from an empty frame without raising.
\* The factors are drawn from a generator seeded with random_state; the frame
\* comes in Rating.Meta.ordering, so equal tables give equal frames.
\* As SeedOf, with random_state=None: fresh entropy in every run.
SeedOf_Unseeded(seq) == seq

\* SVD(..., random_state=42)
SeedOf(seq) == RandomState

Fit(rows, seq) == [ver |-> seq, snap |-> rows, seed |-> SeedOf(seq)]

\* Where an I/O failure can strike inside train_and_save_model.
\* "delete" stands for a failure of default_storage.exists or .delete.
Faults == {"none", "open", "dump", "delete", "save"}

\* As Raises, with a failed storage save swallowed.
Raises_Swallow(fault) == fault \notin {"none", "save"}

\* An exception in steps 3-4 is not caught and leaves the function.
Raises(fault) == fault # "none"

\* Step 3: open(file_path, 'wb') truncates, pickle.dump fills the file.
LocalAfter(old, algo, fault) ==
    CASE fault = "open" -> old
      [] fault = "dump" -> Partial
      [] OTHER -> algo

\* Step 4: exists / delete / save of the storage key.
StorageAfter(old, algo, fault) ==
    CASE fault \in {"open", "dump", "delete"} -> old
      [] fault = "save" -> NoFile
      [] OTHER -> algo

\* As CacheAfterSave, without the reset.
CacheAfterSave_Keep(old) == old

\* "Reset cache": _cached_model = None
CacheAfterSave(old) == None

\* As CacheHit, never trusting the slot.
CacheHit_Never(c) == FALSE

\* load_model line 72: if _cached_model
CacheHit(c) == c # None

\* As LocalExists, taking the local branch unconditionally.
LocalExists_Always(f) == TRUE

\* os.path.exists(file_path)
LocalExists(f) == f # NoFile

\* As Readable, with a missing file read as an empty value.
Readable_Missing(f) == f # Partial

\* pickle.load of a file: a truncated pickle raises; a missing storage key
\* raises from default_storage.open.
Readable(f) == f # NoFile /\ f # Partial

\* load_model as a function of the three slots.
LoadOutcome(c, lf, so) ==
    IF CacheHit(c)
    THEN [status |-> "ok", model |-> c, reads |-> {}, cache |-> c]
    ELSE IF LocalExists(lf)
    THEN IF Readable(lf)
         THEN [status |-> "ok", model |-> lf, reads |-> {"local"}, cache |-> lf]
         ELSE [status |-> "error", model |-> None, reads |-> {"local"}, cache |-> c]
    ELSE IF Readable(so)
         THEN [status |-> "ok", model |-> so, reads |-> {"storage"}, cache |-> so]
         ELSE [status |-> "error", model |-> None, reads |-> {"storage"}, cache |-> c]

\* ------------------------------------------------------ genre shelves
\* GenresView pages through each genre's movies.  The movies of genre g are
\* the ids 1..genreTotal[g] of that genre's shelf.
ShelfGenres == 1..NumGenres
NoOffset == 0 - 1          \* cache.get miss

\* Shelf sizes at start-up: more than a batch, exactly a batch, less, none.
ShelfSize(g) ==
    CASE g = 1 -> MaxGenreMovies
      [] g = 2 -> BatchSize
      [] g = 3 -> 3
      [] OTHER -> 0

ShelvesAtStart ==
    /\ genreTotal = [g \in ShelfGenres |-> ShelfSize(g)]
    /\ genreOffset = [g \in ShelfGenres |-> NoOffset]
    /\ genreShown = [g \in ShelfGenres |-> <<>>]
    /\ genreClean = [g \in ShelfGenres |-> TRUE]
    /\ genreEdits = 0

\* --------------------------------------------------- password-reset mail
Tasks == 1..NumTasks

\* No task has been queued.
MailIdle ==
    /\ mailPc = [t \in Tasks |-> "idle"]
    /\ mailUser = [t \in Tasks |-> 0]
    /\ mailRetries = [t \in Tasks |-> 0]
    /\ mailAttempts = [t \in Tasks |-> 0]
    /\ mailSent = [t \in Tasks |-> 0]

\* Result of the Avg('score') aggregate: the value to two decimals, and
\* whether the mean has no further digits.
NoAgg == [avg |-> 0, exact |-> TRUE]

\* No rating request is in flight.
WritersIdle ==
    /\ anyFailed = FALSE
    /\ wpc = [w \in Writers |-> "idle"]
    /\ wmode = [w \in Writers |-> "rate"]
    /\ wscore = [w \in Writers |-> 0]
    /\ wmem = [w \in Writers |-> 0]
    /\ wagg = [w \in Writers |-> NoAgg]
    /\ lock = 0

NoResp == [op |-> "none", status |-> "ok", loaded |-> "none", user |-> 0, n |-> 0, calls |-> {},
           reads |-> {}, model |-> None, result |-> <<>>,
           pre |-> <<NoFile, NoFile, None>>, snap |-> {}, count |-> 0,
           since |-> None, saved |-> None, over |-> None, cmd |-> None,
           movie |-> 0, score |-> 0, fault |-> "none",
           task |-> 0, tries |-> 0]

\* ------------------------------------------------------------------- start
Init ==
    /\ users = Users
    /\ \E u0 \in Users : \E S \in InitRated(u0) :
          ratings = RowsOf(u0, S)
                      \cup UNION {RowsOf(u, OtherRated(u)) : u \in Users \ {u0}}
    /\ avgRating = [m \in Movies |-> AverageOf(ratings, m)]
    /\ localFile = NoFile
    /\ storageObj = NoFile
    /\ cachedModel = None
    /\ trainSeq = 0
    /\ resp = NoResp
    /\ lastLoaded = None
    /\ justSaved = None
    /\ savedOver = None
    /\ cmdSaved = None
    /\ tpc = "idle" /\ talgo = None
    /\ lpc = [l \in Loaders |-> "idle"]
    /\ lmodel = [l \in Loaders |-> None]
    /\ lcalls = [l \in Loaders |-> 0]
    /\ lafter = [l \in Loaders |-> None]
    /\ lhad = [l \in Loaders |-> FALSE]
    /\ lseq = [l \in Loaders |-> 0]
    /\ lret = [l \in Loaders |-> None]
    /\ WritersIdle
    /\ ShelvesAtStart
    /\ MailIdle

\* ------------------------------------------------------ catalogue data
Genres == 1..NumGenres

\* Movie.genres (many-to-many), possibly empty.
MovieGenres(m) == {g \in Genres : (m \div (2 ^ (g - 1))) % 2 = 1}

\* User.preferred_genres
Prefs(u) == IF u = 1 THEN {} ELSE IF u % 2 = 0 THEN {1, 2} ELSE {1}

\* Movie.Meta.ordering = ["title"]: position of a movie in title order.
TitleKey == [m \in Movies |-> (m % 2) * (NumMovies + 1) + m]

\* Movie.movielens_id, the item key of the training frame (_get_ratings_df);
\* it is a MovieLens number and not the primary key.
MovielensId(m) == m + 1

RECURSIVE OrderBy(_, _)
\* The elements of S as a sequence, ascending in the key function k.
OrderBy(S, k) ==
    IF S = {} THEN <<>>
    ELSE LET x == CHOOSE y \in S : \A z \in S : k[y] <= k[z]
         IN  <<x>> \o OrderBy(S \ {x}, k)

RECURSIVE InsertDesc_Unstable(_, _)
\* As InsertDesc, putting an element before its equals.
InsertDesc_Unstable(s, e) ==
    IF s = <<>> THEN <<e>>
    ELSE IF Head(s)[2] > e[2] THEN <<Head(s)>> \o InsertDesc_Unstable(Tail(s), e)
    ELSE <<e>> \o s

RECURSIVE InsertDesc(_, _)
InsertDesc(s, e) ==
    IF s = <<>> THEN <<e>>
    ELSE IF Head(s)[2] >= e[2] THEN <<Head(s)>> \o InsertDesc(Tail(s), e)
    ELSE <<e>> \o s

RECURSIVE SortDesc(_)
\* list.sort(key=lambda x: x[1], reverse=True): stable, descending.
SortDesc(s) ==
    IF s = <<>> THEN <<>>
    ELSE InsertDesc(SortDesc(SubSeq(s, 1, Len(s) - 1)), s[Len(s)])

\* preds[:n]
Take(s, n) == SubSeq(s, 1, IF n < Len(s) THEN n ELSE Len(s))

\* -------------------------------------------------------- prediction service
\* Mean of the snapshot's scores, in hundredths.
GlobalMean(snap) == (10 * SumScores(snap)) \div Cardinality(snap)

\* algo.predict(str(user_id), str(mid)).est: the global mean plus the terms
\* of the user and of the item when the model knows the raw id.  A learned
\* bias is taken as the entity's mean deviation; the estimate is clipped to the
\* Reader's rating_scale.  The item term carries the trace of the seeded
\* initialisation.  A model fitted on no rows has a NaN mean, which the
\* clip turns into the upper bound.
\* What the randomly initialised factors leave in a learned item term, in
\* hundredths: a function of the seed and the item.
InitNoise(seed, mid) == ((seed + mid) % 3) - 1

\* As Clip, with predict(..., clip=False).
Clip_Off(x) == x

Clip(x) ==
    IF x > 10 * RatingScaleMax THEN 10 * RatingScaleMax
    ELSE IF x < 10 * RatingScaleMin THEN 10 * RatingScaleMin ELSE x

\* Raw ids of the training frame (_get_ratings_df): user__id is an integer,
\* movie__movielens_id a string.
FrameUserKey(u) == [type |-> "int", id |-> u]
FrameItemKey(m) == [type |-> "str", id |-> MovielensId(m)]

\* Raw ids of a query: algo.predict(str(user_id), str(movie_id)), movie_id
\* being the primary key.
QueryUserKey(u) == [type |-> "str", id |-> u]
QueryItemKey(mid) == [type |-> "str", id |-> mid]

Est(algo, u, mid) ==
    LET mine == {r \in algo.snap : FrameUserKey(r.user) = QueryUserKey(u)}
        item == {r \in algo.snap : FrameItemKey(r.movie) = QueryItemKey(mid)}
        mu == GlobalMean(algo.snap)
        bu == IF mine = {} THEN 0
              ELSE (10 * SumScores(mine)) \div Cardinality(mine) - mu
        bi == IF item = {} THEN 0
              ELSE (10 * SumScores(item)) \div Cardinality(item) - mu
                     + InitNoise(algo.seed, mid)
    IN  IF algo.snap = {} THEN 10 * RatingScaleMax
        ELSE Clip(mu + bu + bi)

\* As Candidates, without the exclude().
Candidates_All(rows, u) == Movies

\* Candidate movies = those not rated by user
Candidates(rows, u) == Movies \ {r.movie : r \in {x \in rows : x.user = u}}

\* get_top_n_recommendations after load_model has returned algo.
TopN(algo, rows, u, n) ==
    LET cand == OrderBy(Candidates(rows, u), TitleKey)
        preds == [i \in 1..Len(cand) |-> <<cand[i], Est(algo, u, cand[i])>>]
    IN  Take(SortDesc(preds), n)

\* ------------------------------------------------------ content-based ranking
\* Rows with equal sort keys come back in an order the database picks.
TieOrders == {"pk", "pk_desc"}
PkKey == [m \in Movies |-> m]
PkDescKey == [m \in Movies |-> 0 - m]
Enumerate(S, tie) == IF tie = "pk" THEN OrderBy(S, PkKey) ELSE OrderBy(S, PkDescKey)

\* As MatchCount, counting every genre of the movie.
MatchCount_All(m, prefs) == Cardinality(MovieGenres(m))

\* Count('genres', filter=Q(genres__name__in=prefs))
MatchCount(m, prefs) == Cardinality(MovieGenres(m) \cap prefs)

\* recommend_based_on_genres
GenreRecs(avg, u, n, tie) ==
    LET prefs == Prefs(u)
        pool == IF prefs = {} THEN Movies
                ELSE {m \in Movies : MovieGenres(m) \cap prefs # {}}
        key(m) == IF prefs = {} THEN avg[m]
                  ELSE 1000 * MatchCount(m, prefs) + avg[m]
        base == Enumerate(pool, tie)
        keyed == [i \in 1..Len(base) |-> <<base[i], key(base[i])>>]
        top == Take(SortDesc(keyed), n)
    IN  [i \in 1..Len(top) |-> <<top[i][1], avg[top[i][1]]>>]

\* -------------------------------------------------------------- orchestrator
\* As UsesCollaborative, with >= for >.
UsesCollaborative_Geq(count) == count >= RatingThreshold

\* RecommendMoviesView.get: if count > 5
UsesCollaborative(count) == count > RatingThreshold

\* ---------------------------------------------------- whole-call operations
\* train_and_save_model() called in the serving process.
TrainAndSave(fault) ==
    /\ trainSeq < MaxTrain
    /\ LET algo == Fit(ratings, trainSeq + 1) IN
        /\ trainSeq' = trainSeq + 1
        /\ localFile' = LocalAfter(localFile, algo, fault)
        /\ storageObj' = StorageAfter(storageObj, algo, fault)
        /\ cachedModel' = IF Raises(fault) THEN cachedModel
                          ELSE CacheAfterSave(cachedModel)
        /\ resp' = [NoResp EXCEPT !.op = "train",
                       !.status = IF Raises(fault) THEN "error" ELSE "ok",
                       !.model = IF Raises(fault) THEN None ELSE algo,
                       !.pre = <<localFile, storageObj, cachedModel>>,
                       !.snap = ratings]
        /\ justSaved' = IF Raises(fault) THEN None ELSE algo
        /\ savedOver' = IF Raises(fault) THEN None ELSE cachedModel
    /\ cmdSaved' = None
    /\ lastLoaded' = None
    /\ UNCHANGED <<users, ratings, avgRating, threadVars>>

\* manage.py train_model: Command.handle runs train_and_save_model in its own
\* process on the same host; that process's cache slot dies with it.
TrainCommand(fault) ==
    /\ trainSeq < MaxTrain
    /\ LET algo == Fit(ratings, trainSeq + 1) IN
        /\ trainSeq' = trainSeq + 1
        /\ localFile' = LocalAfter(localFile, algo, fault)
        /\ storageObj' = StorageAfter(storageObj, algo, fault)
        /\ resp' = [NoResp EXCEPT !.op = "command",
                       !.status = IF Raises(fault) THEN "error" ELSE "ok",
                       !.model = IF Raises(fault) THEN None ELSE algo,
                       !.pre = <<localFile, storageObj, cachedModel>>,
                       !.snap = ratings]
        /\ cmdSaved' = IF Raises(fault) THEN None ELSE algo
    /\ justSaved' = None
    /\ savedOver' = None
    /\ UNCHANGED <<users, ratings, avgRating, cachedModel, lastLoaded,
                   threadVars>>

\* The part every caller of load_model shares: the slot, and the bookkeeping
\* of which load followed which save.
LoadEffects(o) ==
    /\ cachedModel' = o.cache
    /\ lastLoaded' = IF o.status = "ok" THEN o.model ELSE lastLoaded
    /\ justSaved' = None
    /\ savedOver' = None

\* load_model()
LoadModel ==
    /\ LET o == LoadOutcome(cachedModel, localFile, storageObj) IN
        /\ LoadEffects(o)
        /\ resp' = [NoResp EXCEPT !.op = "load", !.status = o.status,
                       !.calls = {"load_model"}, !.reads = o.reads,
                       !.model = o.model, !.loaded = o.status,
                       !.pre = <<localFile, storageObj, cachedModel>>,
                       !.since = lastLoaded, !.saved = justSaved,
                       !.over = savedOver, !.cmd = cmdSaved]
    /\ UNCHANGED <<users, ratings, avgRating, localFile, storageObj, trainSeq,
                   cmdSaved, threadVars>>

\* predict_rating(user_id, movie_id)
PredictRating(u, m) ==
    /\ LET o == LoadOutcome(cachedModel, localFile, storageObj) IN
        /\ LoadEffects(o)
        /\ resp' = [NoResp EXCEPT !.op = "predict", !.status = o.status,
                       !.user = u,
                       !.calls = {"predict_rating", "load_model"},
                       !.reads = o.reads, !.model = o.model,
                       !.loaded = o.status,
                       !.result = IF o.status = "ok"
                                  THEN <<(<<m, Est(o.model, u, m)>>)>> ELSE <<>>,
                       !.pre = <<localFile, storageObj, cachedModel>>,
                       !.since = lastLoaded, !.saved = justSaved,
                       !.over = savedOver, !.cmd = cmdSaved]
    /\ UNCHANGED <<users, ratings, avgRating, localFile, storageObj, trainSeq,
                   cmdSaved, threadVars>>

\* get_top_n_recommendations(user_id, n)
GetTopN(u, n) ==
    /\ LET o == LoadOutcome(cachedModel, localFile, storageObj) IN
        /\ LoadEffects(o)
        /\ resp' = [NoResp EXCEPT !.op = "top_n", !.status = o.status,
                       !.user = u, !.n = n,
                       !.calls = {"get_top_n_recommendations", "load_model"},
                       !.reads = o.reads, !.model = o.model,
                       !.loaded = o.status,
                       !.result = IF o.status = "ok"
                                  THEN TopN(o.model, ratings, u, n) ELSE <<>>,
                       !.pre = <<localFile, storageObj, cachedModel>>,
                       !.count = RatingCount(u),
                       !.since = lastLoaded, !.saved = justSaved,
                       !.over = savedOver, !.cmd = cmdSaved]
    /\ UNCHANGED <<users, ratings, avgRating, localFile, storageObj, trainSeq,
                   cmdSaved, threadVars>>

\* recommend_based_on_genres(user_id, n); User.objects.get raises for a
\* user id that has no row.
RecommendGenres(u, n, tie) ==
    /\ resp' = [NoResp EXCEPT !.op = "genres",
                   !.status = IF u \in users THEN "ok" ELSE "error",
                   !.user = u, !.n = n,
                   !.calls = {"recommend_based_on_genres"},
                   !.result = IF u \in users THEN GenreRecs(avgRating, u, n, tie)
                              ELSE <<>>,
                   !.pre = <<localFile, storageObj, cachedModel>>,
                   !.count = RatingCount(u)]
    /\ UNCHANGED <<users, ratings, avgRating, engineVars, trainSeq, lastLoaded,
                   justSaved, savedOver, cmdSaved, threadVars>>

\* RecommendMoviesView.get for the authenticated user u.  zip(*recs) raises
\* on an empty list; an exception of load_model is not caught.
RecommendGet(u, tie) ==
    /\ u \in users
    /\ LET count == RatingCount(u)
           o == LoadOutcome(cachedModel, localFile, storageObj)
       IN  IF UsesCollaborative(count)
           THEN LET recs == IF o.status = "ok"
                            THEN TopN(o.model, ratings, u, DefaultN) ELSE <<>>
                IN  /\ LoadEffects(o)
                    /\ resp' = [NoResp EXCEPT !.op = "view",
                          !.status = IF o.status = "ok" /\ recs # <<>>
                                     THEN "ok" ELSE "error",
                          !.user = u, !.n = DefaultN,
                          !.calls = {"get_top_n_recommendations", "load_model"},
                          !.reads = o.reads, !.model = o.model,
                       !.loaded = o.status,
                          !.result = recs,
                          !.pre = <<localFile, storageObj, cachedModel>>,
                          !.count = count,
                          !.since = lastLoaded, !.saved = justSaved,
                       !.over = savedOver, !.cmd = cmdSaved]
           ELSE LET recs == GenreRecs(avgRating, u, DefaultN, tie)
                IN  /\ resp' = [NoResp EXCEPT !.op = "view",
                          !.status = IF recs # <<>> THEN "ok" ELSE "error",
                          !.user = u, !.n = DefaultN,
                          !.calls = {"recommend_based_on_genres"},
                          !.result = recs,
                          !.pre = <<localFile, storageObj, cachedModel>>,
                          !.count = count]
                    /\ UNCHANGED <<cachedModel, lastLoaded, justSaved, savedOver>>
    /\ UNCHANGED <<users, ratings, avgRating, localFile, storageObj, trainSeq,
                   cmdSaved, threadVars>>

\* The serving process is started anew: the module is imported again with
\* _cached_model = None.  On ephemeral compute the local file is gone too,
\* which is the case load_model's storage branch exists for.
Restart(wipe) ==
    /\ cachedModel' = None
    /\ localFile' = IF wipe THEN NoFile ELSE localFile
    /\ lastLoaded' = None
    /\ justSaved' = None
    /\ savedOver' = None
    /\ resp' = [NoResp EXCEPT !.op = "restart"]
    /\ UNCHANGED <<users, ratings, avgRating, storageObj, trainSeq, cmdSaved,
                   threadVars>>

\* Deleting a user cascades to its Rating rows (on_delete=CASCADE); the
\* post_delete receiver recomputes the averages of the movies concerned.
DeleteUser(u) ==
    /\ u \in users
    /\ users' = users \ {u}
    /\ ratings' = {r \in ratings : r.user # u}
    /\ avgRating' = [m \in Movies |-> AverageOf(ratings', m)]
    /\ resp' = [NoResp EXCEPT !.op = "delete_user", !.user = u]
    /\ UNCHANGED <<engineVars, trainSeq, lastLoaded, justSaved, savedOver,
                   cmdSaved, threadVars>>

Next ==
    \/ \E fault \in Faults : TrainAndSave(fault)
    \/ \E fault \in Faults : TrainCommand(fault)
    \/ LoadModel
    \/ \E u \in Users, m \in 1..MaxN : PredictRating(u, m)
    \/ \E u \in Users, n \in 0..MaxN : GetTopN(u, n)
    \/ \E u \in Users, n \in 0..MaxN, tie \in TieOrders : RecommendGenres(u, n, tie)
    \/ \E u \in Users, tie \in TieOrders : RecommendGet(u, tie)
    \/ \E wipe \in BOOLEAN : Restart(wipe)
    \/ \E u \in Users : DeleteUser(u)

Spec == Init /\ [][Next]_vars


\* ------------------------------------- threads inside the serving process
\* One thread runs train_and_save_model while others run load_model; each
\* action is one statement of utils.py touching the shared file, key or slot.
ConcInit ==
    /\ users = Users
    /\ ratings = UNION {RowsOf(u, OtherRated(u)) : u \in Users}
    /\ avgRating = [m \in Movies |-> AverageOf(ratings, m)]
    /\ trainSeq = 1
    /\ \E start \in {"fresh", "saved", "loaded", "storage_only"} :
        LET m0 == Fit(ratings, 1) IN
        /\ localFile = IF start \in {"saved", "loaded"} THEN m0 ELSE NoFile
        /\ storageObj = IF start = "fresh" THEN NoFile ELSE m0
        /\ cachedModel = IF start = "loaded" THEN m0 ELSE None
    /\ resp = NoResp
    /\ lastLoaded = None
    /\ justSaved = None
    /\ savedOver = None
    /\ cmdSaved = None
    /\ tpc = "idle" /\ talgo = None
    /\ lpc = [l \in Loaders |-> "idle"]
    /\ lmodel = [l \in Loaders |-> None]
    /\ lcalls = [l \in Loaders |-> 0]
    /\ lafter = [l \in Loaders |-> None]
    /\ lhad = [l \in Loaders |-> FALSE]
    /\ lseq = [l \in Loaders |-> 0]
    /\ lret = [l \in Loaders |-> None]
    /\ WritersIdle
    /\ ShelvesAtStart
    /\ MailIdle

dbVars == <<users, ratings, avgRating, resp, lastLoaded, savedOver, cmdSaved,
           writerVars>>
loaderVars == <<lpc, lmodel, lcalls, lafter, lhad, lseq, lret>>

\* lines 38-45: snapshot and fit
TFit ==
    /\ tpc = "idle" /\ trainSeq < MaxTrain
    /\ talgo' = Fit(ratings, trainSeq + 1)
    /\ trainSeq' = trainSeq + 1
    /\ tpc' = "open"
    /\ UNCHANGED <<dbVars, engineVars, justSaved, loaderVars>>

\* line 51: open(file_path, 'wb') creates or truncates the file
TOpen ==
    /\ tpc = "open"
    /\ localFile' = Partial
    /\ tpc' = "dump"
    /\ UNCHANGED <<dbVars, storageObj, cachedModel, trainSeq, justSaved, talgo,
                   loaderVars>>

\* line 52: pickle.dump completes and the file is closed
TDump ==
    /\ tpc = "dump"
    /\ localFile' = talgo
    /\ tpc' = "exists"
    /\ UNCHANGED <<dbVars, storageObj, cachedModel, trainSeq, justSaved, talgo,
                   loaderVars>>

\* line 57: default_storage.exists(storage_path)
TExists ==
    /\ tpc = "exists"
    /\ tpc' = IF storageObj # NoFile THEN "delete" ELSE "save"
    /\ UNCHANGED <<dbVars, engineVars, trainSeq, justSaved, talgo, loaderVars>>

\* line 58: default_storage.delete(storage_path)
TDelete ==
    /\ tpc = "delete"
    /\ storageObj' = NoFile
    /\ tpc' = "save"
    /\ UNCHANGED <<dbVars, localFile, cachedModel, trainSeq, justSaved, talgo,
                   loaderVars>>

\* line 59: default_storage.save(storage_path, ContentFile(data_bytes))
TSave ==
    /\ tpc = "save"
    /\ storageObj' = talgo
    /\ tpc' = "reset"
    /\ UNCHANGED <<dbVars, localFile, cachedModel, trainSeq, justSaved, talgo,
                   loaderVars>>

\* lines 62-64: _cached_model = None; return algo
TReset ==
    /\ tpc = "reset"
    /\ cachedModel' = CacheAfterSave(cachedModel)
    /\ justSaved' = talgo
    /\ tpc' = "idle"
    /\ UNCHANGED <<dbVars, localFile, storageObj, trainSeq, talgo, loaderVars>>

\* line 72: if _cached_model
LCheck(l) ==
    /\ lpc[l] \in {"idle", "done", "failed"} /\ lcalls[l] < MaxLoads
    /\ lcalls' = [lcalls EXCEPT ![l] = @ + 1]
    /\ lafter' = [lafter EXCEPT ![l] = justSaved]
    /\ lhad' = [lhad EXCEPT ![l] = Readable(localFile) \/ Readable(storageObj)]
    /\ lpc' = [lpc EXCEPT ![l] = IF CacheHit(cachedModel) THEN "hit" ELSE "exists"]
    /\ UNCHANGED <<dbVars, engineVars, trainSeq, justSaved, tpc, talgo, lmodel,
                   lseq, lret>>

\* line 73: return _cached_model, a second read of the global
LReturnCached(l) ==
    /\ lpc[l] = "hit"
    /\ lret' = [lret EXCEPT ![l] = cachedModel]
    /\ lseq' = [lseq EXCEPT ![l] = trainSeq]
    /\ lpc' = [lpc EXCEPT ![l] = "done"]
    /\ UNCHANGED <<dbVars, engineVars, trainSeq, justSaved, tpc, talgo, lmodel,
                   lcalls, lafter, lhad>>

\* line 77: os.path.exists(file_path)
LExists(l) ==
    /\ lpc[l] = "exists"
    /\ lpc' = [lpc EXCEPT ![l] = IF LocalExists(localFile) THEN "read_local"
                                 ELSE "read_storage"]
    /\ UNCHANGED <<dbVars, engineVars, trainSeq, justSaved, tpc, talgo, lmodel,
                   lcalls, lafter, lhad, lseq, lret>>

\* lines 78-79: pickle.load of the local file
LReadLocal(l) ==
    /\ lpc[l] = "read_local"
    /\ lmodel' = [lmodel EXCEPT ![l] = localFile]
    /\ lpc' = [lpc EXCEPT ![l] = IF Readable(localFile) THEN "store" ELSE "failed"]
    /\ UNCHANGED <<dbVars, engineVars, trainSeq, justSaved, tpc, talgo, lcalls,
                   lafter, lhad, lseq, lret>>

\* lines 83-84: default_storage.open and pickle.load
LReadStorage(l) ==
    /\ lpc[l] = "read_storage"
    /\ lmodel' = [lmodel EXCEPT ![l] = storageObj]
    /\ lpc' = [lpc EXCEPT ![l] = IF Readable(storageObj) THEN "store" ELSE "failed"]
    /\ UNCHANGED <<dbVars, engineVars, trainSeq, justSaved, tpc, talgo, lcalls,
                   lafter, lhad, lseq, lret>>

\* lines 86-87: _cached_model = model; return model
LStore(l) ==
    /\ lpc[l] = "store"
    /\ cachedModel' = lmodel[l]
    /\ lret' = [lret EXCEPT ![l] = lmodel[l]]
    /\ lseq' = [lseq EXCEPT ![l] = trainSeq]
    /\ lpc' = [lpc EXCEPT ![l] = "done"]
    /\ UNCHANGED <<dbVars, localFile, storageObj, trainSeq, justSaved, tpc, talgo,
                   lmodel, lcalls, lafter, lhad>>

ConcNext ==
    \/ TFit \/ TOpen \/ TDump \/ TExists \/ TDelete \/ TSave \/ TReset
    \/ \E l \in Loaders : LCheck(l)
    \/ \E l \in Loaders : LReturnCached(l)
    \/ \E l \in Loaders : LExists(l)
    \/ \E l \in Loaders : LReadLocal(l)
    \/ \E l \in Loaders : LReadStorage(l)
    \/ \E l \in Loaders : LStore(l)

ConcSpec == ConcInit /\ [][ConcNext]_vars

\* ------------------------------------------------------- rating requests
\* Whole-request operations on the Rating table, one after the other.
RateMovies == 1..NumRateMovies

\* Scores a client may send, in tenths; 55 is outside 0.0 .. 5.0.
RateScores == {0, 30, 55}
Keep == 0 - 1        \* a PATCH body without "score"

\* RatingSerializer.validate_score and the Rating.score validators
ValidScore(s) == 0 <= s /\ s <= 50

\* What can happen to update_average_rating inside the signal receiver:
\* it works; it raises and the receiver logs it while the Rating statement
\* stays; or, inside a transaction, the failed statement dooms the
\* transaction, which then ends without the Rating change.
InTxOutcomes == {"ok", "fail_kept", "fail_rolled"}
AutoOutcomes == {"ok", "fail_kept"}

RowFor(u, m) == {r \in ratings : r.user = u /\ r.movie = m}

\* update_movie_average_after_rating_change -> movie.update_average_rating()
Recompute(avg, rows, m) == [avg EXCEPT ![m] = AverageOf(rows, m)]

otherVars == <<users, engineVars, trainSeq, lastLoaded, justSaved, savedOver,
               cmdSaved, tpc, talgo, lpc, lmodel, lcalls, lafter, lhad, lseq,
               lret, wpc, wmode, wscore, wmem, wagg, lock, shelfVars,
               mailVars>>

RatingInit ==
    /\ users = Users
    /\ ratings = {}
    /\ avgRating = [m \in Movies |-> 0]
    /\ localFile = NoFile
    /\ storageObj = NoFile
    /\ cachedModel = None
    /\ trainSeq = 0
    /\ resp = NoResp
    /\ lastLoaded = None
    /\ justSaved = None
    /\ savedOver = None
    /\ cmdSaved = None
    /\ tpc = "idle" /\ talgo = None
    /\ lpc = [l \in Loaders |-> "idle"]
    /\ lmodel = [l \in Loaders |-> None]
    /\ lcalls = [l \in Loaders |-> 0]
    /\ lafter = [l \in Loaders |-> None]
    /\ lhad = [l \in Loaders |-> FALSE]
    /\ lseq = [l \in Loaders |-> 0]
    /\ lret = [l \in Loaders |-> None]
    /\ WritersIdle
    /\ ShelvesAtStart
    /\ MailIdle

\* The table and the average after a write that replaced `old` by `new`
\* (sets of rows) and whose receiver recomputes movie m with outcome out.
WriteEffects(old, new, m, out) ==
    /\ ratings' = IF out = "fail_rolled" THEN ratings
                  ELSE (ratings \ old) \cup new
    /\ avgRating' = IF out = "ok" THEN Recompute(avgRating, ratings', m)
                    ELSE avgRating
    /\ anyFailed' = (anyFailed \/ out # "ok")

\* MovieViewSet.rate: POST /movies/<slug>/rate/
RateMovie(u, m, s, out) ==
    /\ u \in users
    /\ IF ~ValidScore(s)
       THEN /\ resp' = [NoResp EXCEPT !.op = "rate", !.status = "invalid",
                           !.user = u, !.movie = m, !.score = s,
                           !.snap = ratings]
            /\ UNCHANGED <<ratings, avgRating, anyFailed>>
       ELSE /\ WriteEffects(RowFor(u, m),
                            {[user |-> u, movie |-> m, score |-> s]}, m, out)
            /\ resp' = [NoResp EXCEPT !.op = "rate", !.status = "ok",
                           !.user = u, !.movie = m, !.score = s,
                           !.snap = ratings,
                           !.fault = IF out = "ok" THEN "none" ELSE out]
    /\ UNCHANGED otherVars

\* RatingListCreateView: POST /ratings/.  The INSERT of a pair that already
\* has a row violates unique_together and the request fails.
CreateRating(u, m, s, out) ==
    /\ u \in users
    /\ IF ~ValidScore(s) \/ RowFor(u, m) # {}
       THEN /\ resp' = [NoResp EXCEPT !.op = "create",
                           !.status = IF ~ValidScore(s) THEN "invalid" ELSE "error",
                           !.user = u, !.movie = m, !.score = s,
                           !.snap = ratings]
            /\ UNCHANGED <<ratings, avgRating, anyFailed>>
       ELSE /\ WriteEffects({}, {[user |-> u, movie |-> m, score |-> s]}, m, out)
            /\ resp' = [NoResp EXCEPT !.op = "create", !.status = "ok",
                           !.user = u, !.movie = m, !.score = s,
                           !.snap = ratings,
                           !.fault = IF out = "ok" THEN "none" ELSE out]
    /\ UNCHANGED otherVars

\* RatingDetailView: PATCH /ratings/<id>/ on the user's row for movie m.
\* The serializer's writable fields are movie and score; the receiver
\* recomputes the movie the row points to after the save.
PatchRating(u, m, newm, s, out) ==
    /\ u \in users
    /\ RowFor(u, m) # {}
    /\ LET row == CHOOSE r \in RowFor(u, m) : TRUE
           new == [user |-> u, movie |-> newm,
                   score |-> IF s = Keep THEN row.score ELSE s]
       IN  IF (s # Keep /\ ~ValidScore(s)) \/ (newm # m /\ RowFor(u, newm) # {})
           THEN /\ resp' = [NoResp EXCEPT !.op = "patch",
                               !.status = IF s # Keep /\ ~ValidScore(s)
                                          THEN "invalid" ELSE "error",
                               !.user = u, !.movie = m, !.score = s,
                               !.snap = ratings]
                /\ UNCHANGED <<ratings, avgRating, anyFailed>>
           ELSE /\ WriteEffects({row}, {new}, newm, out)
                /\ resp' = [NoResp EXCEPT !.op = "patch", !.status = "ok",
                               !.user = u, !.movie = m, !.score = s,
                               !.snap = ratings,
                               !.fault = IF out = "ok" THEN "none" ELSE out]
    /\ UNCHANGED otherVars

\* RatingDetailView: DELETE /ratings/<id>/
DeleteRating(u, m, out) ==
    /\ u \in users
    /\ RowFor(u, m) # {}
    /\ WriteEffects(RowFor(u, m), {}, m, out)
    /\ resp' = [NoResp EXCEPT !.op = "delete", !.status = "ok",
                   !.user = u, !.movie = m, !.snap = ratings,
                   !.fault = IF out = "ok" THEN "none" ELSE out]
    /\ UNCHANGED otherVars

RatingNext ==
    \/ \E u \in Users, m \in RateMovies, s \in RateScores, out \in InTxOutcomes :
          RateMovie(u, m, s, out)
    \/ \E u \in Users, m \in RateMovies, s \in RateScores, out \in AutoOutcomes :
          CreateRating(u, m, s, out)
    \/ \E u \in Users, m \in RateMovies, newm \in RateMovies,
          s \in RateScores \cup {Keep}, out \in AutoOutcomes :
          PatchRating(u, m, newm, s, out)
    \/ \E u \in Users, m \in RateMovies, out \in InTxOutcomes :
          DeleteRating(u, m, out)

RatingSpec == RatingInit /\ [][RatingNext]_vars

\* ------------------------------------------- concurrent rating requests
\* Writers w = 1..NumWriters are requests of different users (user w) that
\* rate the same movie, each as its own sequence of statements.  `ratings`
\* and `avgRating` hold what is committed; a writer inside
\* update_or_create's transaction has its Rating row, and its UPDATE of the
\* movie row, pending until WCommit.  Isolation is READ COMMITTED.
HotMovie == 1
WriterModes == {"rate", "create"}
WriterScores == {20, 40}

OwnRow(w) == [user |-> w, movie |-> HotMovie, score |-> wscore[w]]

\* Rows a writer's queries see: the committed ones and its own pending row.
Visible(w) ==
    IF wmode[w] = "rate" /\ wpc[w] \in {"agg", "save", "commit"}
    THEN (ratings \ RowFor(w, HotMovie)) \cup {OwnRow(w)}
    ELSE ratings

\* self.ratings.aggregate(avg=Avg('score'))['avg'] or Decimal('0.00')
Aggregate(rows, m) ==
    LET S == {r \in rows : r.movie = m}
    IN  [avg |-> AverageOf(rows, m),
         exact |-> (S = {} \/ (10 * SumScores(S)) % Cardinality(S) = 0)]

nonWriterVars == <<users, engineVars, trainSeq, resp, lastLoaded, justSaved,
                   savedOver, cmdSaved, tpc, talgo, lpc, lmodel, lcalls,
                   lafter, lhad, lseq, lret, anyFailed, shelfVars, mailVars>>

\* Committed rows before the two requests start.
PriorRatings == {{}, {[user |-> 1, movie |-> HotMovie, score |-> 30]}}

RateConcInit ==
    /\ users = Users
    /\ ratings \in PriorRatings
    /\ avgRating = [m \in Movies |-> AverageOf(ratings, m)]
    /\ localFile = NoFile
    /\ storageObj = NoFile
    /\ cachedModel = None
    /\ trainSeq = 0
    /\ resp = NoResp
    /\ lastLoaded = None
    /\ justSaved = None
    /\ savedOver = None
    /\ cmdSaved = None
    /\ tpc = "idle" /\ talgo = None
    /\ lpc = [l \in Loaders |-> "idle"]
    /\ lmodel = [l \in Loaders |-> None]
    /\ lcalls = [l \in Loaders |-> 0]
    /\ lafter = [l \in Loaders |-> None]
    /\ lhad = [l \in Loaders |-> FALSE]
    /\ lseq = [l \in Loaders |-> 0]
    /\ lret = [l \in Loaders |-> None]
    /\ WritersIdle
    /\ ShelvesAtStart
    /\ MailIdle

\* The request fetches the Movie instance (rate: self.get_object(); POST
\* /ratings/: the serializer's movie field) and validates the score.
WRead(w, mode, s) ==
    /\ wpc[w] = "idle"
    /\ wmode' = [wmode EXCEPT ![w] = mode]
    /\ wscore' = [wscore EXCEPT ![w] = s]
    /\ wmem' = [wmem EXCEPT ![w] = avgRating[HotMovie]]
    /\ wpc' = [wpc EXCEPT ![w] = "write"]
    /\ UNCHANGED <<ratings, avgRating, wagg, lock, nonWriterVars>>

\* The Rating statement: update_or_create's INSERT or UPDATE inside its
\* transaction, or serializer.save()'s INSERT in autocommit, which fails on
\* a pair that already has a row.
WWrite(w) ==
    /\ wpc[w] = "write"
    /\ IF wmode[w] = "rate"
       THEN /\ wpc' = [wpc EXCEPT ![w] = "agg"]
            /\ UNCHANGED ratings
       ELSE IF RowFor(w, HotMovie) # {}
       THEN /\ wpc' = [wpc EXCEPT ![w] = "done"]
            /\ UNCHANGED ratings
       ELSE /\ wpc' = [wpc EXCEPT ![w] = "agg"]
            /\ ratings' = ratings \cup {OwnRow(w)}
    /\ UNCHANGED <<avgRating, wmode, wscore, wmem, wagg, lock, nonWriterVars>>

\* update_average_rating, first statement: the aggregate
WAgg(w) ==
    /\ wpc[w] = "agg"
    /\ wagg' = [wagg EXCEPT ![w] = Aggregate(Visible(w), HotMovie)]
    /\ wpc' = [wpc EXCEPT ![w] = "save"]
    /\ UNCHANGED <<ratings, avgRating, wmode, wscore, wmem, lock, nonWriterVars>>

\* update_average_rating: if self.average_rating != agg, UPDATE the movie
\* row.  The UPDATE waits for a transaction that holds the row; inside a
\* transaction it holds the row until the commit.
WSave(w) ==
    /\ wpc[w] = "save"
    /\ IF wagg[w].exact /\ wmem[w] = wagg[w].avg
       THEN /\ wpc' = [wpc EXCEPT ![w] =
                          IF wmode[w] = "rate" THEN "commit" ELSE "done"]
            /\ UNCHANGED <<avgRating, lock>>
       ELSE /\ lock \in {0, w}
            /\ IF wmode[w] = "rate"
               THEN /\ lock' = w
                    /\ wpc' = [wpc EXCEPT ![w] = "commit"]
                    /\ UNCHANGED avgRating
               ELSE /\ avgRating' = [avgRating EXCEPT ![HotMovie] = wagg[w].avg]
                    /\ wpc' = [wpc EXCEPT ![w] = "done"]
                    /\ UNCHANGED lock
    /\ UNCHANGED <<ratings, wmode, wscore, wmem, wagg, nonWriterVars>>

\* update_or_create leaves transaction.atomic: the Rating row and the
\* movie row's new average become visible, the row lock is released.
WCommit(w) ==
    /\ wpc[w] = "commit"
    /\ ratings' = (ratings \ RowFor(w, HotMovie)) \cup {OwnRow(w)}
    /\ IF lock = w
       THEN /\ avgRating' = [avgRating EXCEPT ![HotMovie] = wagg[w].avg]
            /\ lock' = 0
       ELSE UNCHANGED <<avgRating, lock>>
    /\ wpc' = [wpc EXCEPT ![w] = "done"]
    /\ UNCHANGED <<wmode, wscore, wmem, wagg, nonWriterVars>>

RateConcNext ==
    \/ \E w \in Writers, mode \in WriterModes, s \in WriterScores : WRead(w, mode, s)
    \/ \E w \in Writers : WWrite(w)
    \/ \E w \in Writers : WAgg(w)
    \/ \E w \in Writers : WSave(w)
    \/ \E w \in Writers : WCommit(w)

RateConcSpec == RateConcInit /\ [][RateConcNext]_vars

\* ------------------------------------------------------ GET /genres/
\* Movie.average_rating of the shelf's movies, in hundredths; many movies
\* share an average (every unrated movie stands at 0.00).
ShelfAvg(m) == 100 * (m % 3)

\* genre.movies.order_by('-average_rating'): descending average, rows of
\* equal average in the order this one query happens to produce.
ShelfOrder(total, tie) ==
    LET base == [i \in 1..total |-> IF tie = "pk" THEN i ELSE total + 1 - i]
        keyed == [i \in 1..total |-> <<base[i], ShelfAvg(base[i])>>]
        sorted == SortDesc(keyed)
    IN  [i \in 1..total |-> sorted[i][1]]

\* qs[offset: offset + BATCH_SIZE]
Slice(s, offset) ==
    SubSeq(s, offset + 1, IF offset + BatchSize < Len(s) THEN offset + BatchSize
                          ELSE Len(s))

\* cache.get(cache_key, 0)
CachedOffset(g) == IF genreOffset[g] = NoOffset THEN 0 ELSE genreOffset[g]

\* next_offset, wrapped
NextOffset(offset, total) ==
    IF offset + BatchSize >= total THEN 0 ELSE offset + BatchSize

nonShelfVars == <<users, ratings, avgRating, engineVars, trainSeq, lastLoaded,
                  justSaved, savedOver, cmdSaved, tpc, talgo, lpc, lmodel,
                  lcalls, lafter, lhad, lseq, lret, anyFailed, wpc, wmode,
                  wscore, wmem, wagg, lock, mailVars>>

\* GenresView.get: one pass over all genres.
GenresGet(tie) ==
    LET batch(g) == IF genreTotal[g] = 0 THEN <<>>
                    ELSE Slice(ShelfOrder(genreTotal[g], tie), CachedOffset(g))
    IN  /\ genreOffset' = [g \in ShelfGenres |->
                IF genreTotal[g] = 0 THEN genreOffset[g]
                ELSE NextOffset(CachedOffset(g), genreTotal[g])]
        /\ genreShown' = [g \in ShelfGenres |->
                IF genreTotal[g] = 0 THEN <<>>
                ELSE IF CachedOffset(g) = 0 THEN batch(g)
                ELSE genreShown[g] \o batch(g)]
        /\ genreClean' = [g \in ShelfGenres |->
                IF genreTotal[g] = 0 \/ CachedOffset(g) = 0 THEN TRUE
                ELSE genreClean[g]]
        /\ resp' = [NoResp EXCEPT !.op = "genre_list",
                       !.result = [g \in ShelfGenres |-> batch(g)]]
        /\ UNCHANGED <<genreTotal, genreEdits, nonShelfVars>>

\* A movie is given genre g (import, admin): it joins the shelf.
AddGenreMovie(g) ==
    /\ genreEdits < MaxGenreEdits
    /\ genreTotal[g] < MaxGenreMovies
    /\ genreTotal' = [genreTotal EXCEPT ![g] = @ + 1]
    /\ genreClean' = [genreClean EXCEPT ![g] = FALSE]
    /\ genreEdits' = genreEdits + 1
    /\ resp' = [NoResp EXCEPT !.op = "genre_add"]
    /\ UNCHANGED <<genreOffset, genreShown, nonShelfVars>>

\* A movie of genre g is deleted or loses the genre.
RemoveGenreMovie(g) ==
    /\ genreEdits < MaxGenreEdits
    /\ genreTotal[g] > 0
    /\ genreTotal' = [genreTotal EXCEPT ![g] = @ - 1]
    /\ genreClean' = [genreClean EXCEPT ![g] = FALSE]
    /\ genreEdits' = genreEdits + 1
    /\ resp' = [NoResp EXCEPT !.op = "genre_remove"]
    /\ UNCHANGED <<genreOffset, genreShown, nonShelfVars>>

GenreNext ==
    \/ \E tie \in TieOrders : GenresGet(tie)
    \/ \E g \in ShelfGenres : AddGenreMovie(g)
    \/ \E g \in ShelfGenres : RemoveGenreMovie(g)

\* Start-up: no cache entry yet, the shelves at their start-up sizes.
GenreInit == RatingInit

GenreSpec == GenreInit /\ [][GenreNext]_vars

\* ------------------------------------------- send_password_reset_email
\* User.email of the accounts at start-up; a blank address is what the
\* task's `if not user.email` guards against.
HasEmail(u) == u % 2 = 1

\* As CanRetry, counting one retry too many.
CanRetry_Leq(retries) == retries <= MaxRetries

\* self.retry: a retry is scheduled while request.retries < max_retries,
\* otherwise the exception is raised and the task fails.
CanRetry(retries) == retries < MaxRetries

nonMailVars == <<ratings, avgRating, engineVars, trainSeq, lastLoaded,
                 justSaved, savedOver, cmdSaved, tpc, talgo, lpc, lmodel,
                 lcalls, lafter, lhad, lseq, lret, anyFailed, wpc, wmode,
                 wscore, wmem, wagg, lock, shelfVars>>

\* password_reset_token_created_handler: send_password_reset_email.delay(...)
\* for the token's user.
QueueResetMail(t, u) ==
    /\ mailPc[t] = "idle"
    /\ u \in users
    /\ mailPc' = [mailPc EXCEPT ![t] = "queued"]
    /\ mailUser' = [mailUser EXCEPT ![t] = u]
    /\ resp' = [NoResp EXCEPT !.op = "mail_queue", !.task = t, !.user = u]
    /\ UNCHANGED <<users, mailRetries, mailAttempts, mailSent, nonMailVars>>

\* One execution of the task body by a worker.  sent tells whether
\* _send_email returns (it raises when rendering or sending raises, or when
\* email.send() reports 0 messages).
RunResetMail(t, sent) ==
    /\ mailPc[t] = "queued"
    /\ LET u == mailUser[t]
           skip == u \notin users \/ ~HasEmail(u)
           outcome == IF skip THEN "skipped"
                      ELSE IF sent THEN "done"
                      ELSE IF CanRetry(mailRetries[t]) THEN "queued"
                      ELSE "failed"
       IN  /\ mailPc' = [mailPc EXCEPT ![t] = outcome]
           /\ mailAttempts' = [mailAttempts EXCEPT ![t] = IF skip THEN @ ELSE @ + 1]
           /\ mailSent' = [mailSent EXCEPT ![t] = IF ~skip /\ sent THEN @ + 1 ELSE @]
           /\ mailRetries' = [mailRetries EXCEPT ![t] =
                                 IF outcome = "queued" THEN @ + 1 ELSE @]
           /\ resp' = [NoResp EXCEPT !.op = "mail_run", !.task = t, !.user = u,
                          !.status = outcome, !.tries = mailAttempts[t],
                          !.count = mailRetries[t]]
    /\ UNCHANGED <<users, mailUser, nonMailVars>>

\* The account is deleted while a task for it may be waiting.
RemoveAccount(u) ==
    /\ u \in users
    /\ users' = users \ {u}
    /\ resp' = [NoResp EXCEPT !.op = "account_delete", !.user = u]
    /\ UNCHANGED <<mailVars, nonMailVars>>

MailNext ==
    \/ \E t \in Tasks, u \in Users : QueueResetMail(t, u)
    \/ \E t \in Tasks, sent \in BOOLEAN : RunResetMail(t, sent)
    \/ \E u \in Users : RemoveAccount(u)

MailInit == RatingInit

MailSpec == MailInit /\ [][MailNext]_vars

\* ------------------------------------------------------------------- claims
Collaborative == "get_top_n_recommendations" \in resp.calls
Loaded == "load_model" \in resp.calls
NothingPersisted == resp.pre = <<NoFile, NoFile, None>>

NoRepeat(s) == \A i, j \in 1..Len(s) : i # j => s[i][1] # s[j][1]

\* C1: the view picks the strategy from the rating count alone: with 5 or
\* fewer rows it calls recommend_based_on_genres and neither
\* get_top_n_recommendations nor load_model; with more than 5 it calls
\* get_top_n_recommendations.
C1_StrategyByCount ==
    resp.op = "view" =>
        IF RatingCount(resp.user) <= 5
        THEN resp.calls = {"recommend_based_on_genres"}
        ELSE Collaborative /\ "recommend_based_on_genres" \notin resp.calls

C1_Witness ==
    /\ resp.op = "view"
    /\ RatingCount(resp.user) = 6
    /\ Collaborative

\* C2: for a user with more than 5 ratings and an available model,
\* get_top_n_recommendations(user, n) returns at most n pairs, no movie
\* twice, and only movies the user has no Rating row for.
C2_TopNUnrated ==
    (Collaborative /\ resp.status = "ok" /\ RatingCount(resp.user) > 5) =>
        /\ Len(resp.result) <= resp.n
        /\ NoRepeat(resp.result)
        /\ \A i \in 1..Len(resp.result) : resp.result[i][1] \notin RatedBy(resp.user)

C2_Witness ==
    /\ resp.op = "top_n" /\ resp.status = "ok"
    /\ RatingCount(resp.user) > 5
    /\ resp.n >= 1 /\ Len(resp.result) = resp.n
    /\ Cardinality(Movies \ RatedBy(resp.user)) > resp.n

\* C3: with more than 5 ratings and no model artifact in either location the
\* request does not fail; it falls back to recommend_based_on_genres and
\* returns that (non-empty) result.
C3_FallbackOnMissingModel ==
    (resp.op = "view" /\ RatingCount(resp.user) > 5 /\ NothingPersisted) =>
        /\ resp.status = "ok"
        /\ "recommend_based_on_genres" \in resp.calls
        /\ resp.result # <<>>

\* C4: in one process, the first load_model after train_and_save_model has
\* returned gives the model just saved, whatever the cache held before.
C4_LoadAfterSave ==
    (Loaded /\ resp.saved # None) =>
        resp.loaded = "ok" /\ resp.model = resp.saved

C4_Witness ==
    /\ resp.op = "load" /\ resp.loaded = "ok"
    /\ resp.saved # None /\ resp.model = resp.saved
    /\ resp.over # None /\ resp.over # resp.saved

\* C5: a load_model that follows a successful load_model, with no
\* train_and_save_model between them, returns the same model and reads
\* neither the local file nor Django storage.
C5_LoadTwice ==
    (Loaded /\ resp.since # None) =>
        resp.loaded = "ok" /\ resp.model = resp.since /\ resp.reads = {}

C5_Witness ==
    /\ resp.op = "load" /\ resp.since # None
    /\ resp.model = resp.since /\ resp.reads = {}
    /\ resp.pre[1] # resp.model

\* C8: with no artifact at the local path nor under the storage key and an
\* empty cache, load_model fails and the cache slot stays empty.
C8_LoadNotFound ==
    (Loaded /\ NothingPersisted) =>
        resp.loaded = "error" /\ resp.status = "error" /\ cachedModel = None

C8_Witness ==
    resp.op = "load" /\ NothingPersisted /\ resp.loaded = "error"

\* C9: with an empty Rating table train_and_save_model fails and leaves the
\* persisted model alone: local file, storage object and cache slot hold what
\* they held before the call.
C9_EmptyTrainingFails ==
    (resp.op \in {"train", "command"} /\ resp.snap = {}
        /\ resp.pre[1] # NoFile /\ resp.pre[2] # NoFile) =>
        /\ resp.status = "error"
        /\ <<localFile, storageObj, cachedModel>> = resp.pre

\* C10: when train_and_save_model returns normally both the local file and
\* the storage object hold the returned model; a failed write makes the call
\* raise, so success is never reported for a save missing in either place.
C10_SaveBoth ==
    (resp.op \in {"train", "command"} /\ resp.status = "ok") =>
        /\ resp.model # None
        /\ localFile = resp.model
        /\ storageObj = resp.model

C10_Witness ==
    /\ resp.op = "command" /\ resp.status = "ok"
    /\ localFile = resp.model /\ storageObj = resp.model
    /\ resp.pre[1] # NoFile /\ resp.pre[1] # resp.model

\* C6: once a save has returned, a load_model that starts afterwards (and
\* returns before another training starts) returns the saved model, and no
\* load that overlapped the save leaves an older model in the cache slot.
C6_NoStaleAfterSave ==
    /\ \A l \in Loaders :
          (lpc[l] = "done" /\ lafter[l] # None /\ lseq[l] = lafter[l].ver) =>
              lret[l] = lafter[l]
    /\ (tpc = "idle" /\ justSaved # None /\ trainSeq = justSaved.ver
            /\ cachedModel # None) => cachedModel = justSaved

\* C7: with a model already persisted, a load_model running next to
\* train_and_save_model reads a complete artifact, the old or the new one:
\* never a partly written local file, never a missing storage key.
C7_AtomicOverwrite ==
    \A l \in Loaders : lhad[l] => lpc[l] # "failed"

Min(a, b) == IF a < b THEN a ELSE b
MoviesIn(s) == {s[i][1] : i \in 1..Len(s)}

\* C11: get_top_n_recommendations returns the candidates in non-increasing
\* order of predicted score, equal scores in candidate enumeration order; the
\* result is the first n of that order, and all candidates (none, if there is
\* none) when fewer than n exist, without padding or error.
C11_TopNOrder ==
    (Collaborative /\ resp.loaded = "ok") =>
        LET cand == Movies \ RatedBy(resp.user)
            res == resp.result
            est(m) == Est(resp.model, resp.user, m)
            ahead(a, b) == \/ est(a) > est(b)
                           \/ est(a) = est(b) /\ TitleKey[a] < TitleKey[b]
        IN  /\ Len(res) = Min(resp.n, Cardinality(cand))
            /\ \A i \in 1..Len(res) : res[i][1] \in cand /\ res[i][2] = est(res[i][1])
            /\ \A i, j \in 1..Len(res) : i < j => ahead(res[i][1], res[j][1])
            /\ \A c \in cand \ MoviesIn(res) :
                  \A i \in 1..Len(res) : ahead(res[i][1], c)

C11_Witness ==
    /\ resp.op = "top_n" /\ resp.loaded = "ok"
    /\ Len(resp.result) = 2
    /\ resp.result[1][2] = resp.result[2][2]
    /\ Cardinality(Movies \ RatedBy(resp.user)) > 2

\* C12: with a model available predict_rating does not raise for a user or
\* a movie absent from the training snapshot, and its score lies inside the
\* rating scale 0.5 .. 5.0 for every pair.
C12_PredictInScale ==
    (resp.op = "predict" /\ resp.loaded = "ok") =>
        /\ resp.status = "ok"
        /\ Len(resp.result) = 1
        /\ 50 <= resp.result[1][2] /\ resp.result[1][2] <= 500

C12_Witness ==
    /\ resp.op = "predict" /\ resp.status = "ok"
    /\ resp.model.snap # {}
    /\ \A r \in resp.model.snap :
          /\ r.user # resp.user
          /\ r.movie # resp.result[1][1]
          /\ MovielensId(r.movie) # resp.result[1][1]

\* C13: with no preferred genres recommend_based_on_genres returns the
\* min(n, catalogue size) movies highest by average_rating, in non-increasing
\* average_rating order, equal averages in catalogue insertion order, each
\* with its average_rating as score.
C13_TopRatedInsertionOrder ==
    (resp.op = "genres" /\ resp.status = "ok" /\ Prefs(resp.user) = {}) =>
        LET res == resp.result
            ahead(a, b) == \/ avgRating[a] > avgRating[b]
                           \/ avgRating[a] = avgRating[b] /\ a < b
        IN  /\ Len(res) = Min(resp.n, Cardinality(Movies))
            /\ \A i \in 1..Len(res) : res[i][2] = avgRating[res[i][1]]
            /\ \A i, j \in 1..Len(res) : i < j => ahead(res[i][1], res[j][1])
            /\ \A c \in Movies \ MoviesIn(res) :
                  \A i \in 1..Len(res) : ahead(res[i][1], c)

\* C14: with preferred genres recommend_based_on_genres returns only movies
\* sharing a genre with the set, each once, by overlap count descending and
\* then average_rating descending, cut to n, each scored by average_rating.
C14_GenreOverlapOrder ==
    ("recommend_based_on_genres" \in resp.calls /\ resp.user \in users
        /\ Prefs(resp.user) # {}) =>
        LET res == resp.result
            prefs == Prefs(resp.user)
            pool == {m \in Movies : MovieGenres(m) \cap prefs # {}}
            ov(m) == Cardinality(MovieGenres(m) \cap prefs)
            ahead(a, b) == \/ ov(a) > ov(b)
                           \/ ov(a) = ov(b) /\ avgRating[a] >= avgRating[b]
        IN  /\ Len(res) = Min(resp.n, Cardinality(pool))
            /\ NoRepeat(res)
            /\ \A i \in 1..Len(res) :
                  res[i][1] \in pool /\ res[i][2] = avgRating[res[i][1]]
            /\ \A i, j \in 1..Len(res) : i < j => ahead(res[i][1], res[j][1])
            /\ \A c \in pool \ MoviesIn(res) :
                  \A i \in 1..Len(res) : ahead(res[i][1], c)

C14_Witness ==
    /\ resp.op = "genres" /\ resp.status = "ok" /\ Prefs(resp.user) # {}
    /\ Len(resp.result) = 2
    /\ Cardinality(MovieGenres(resp.result[1][1]) \cap Prefs(resp.user))
         = Cardinality(MovieGenres(resp.result[2][1]) \cap Prefs(resp.user))
    /\ resp.result[1][2] > resp.result[2][2]
    /\ \E m \in Movies \ MoviesIn(resp.result) :
          Cardinality(MovieGenres(m) \cap Prefs(resp.user)) = 1

\* C19: after the train_model command (another process) has saved a model
\* while the serving process holds a cached one, load_model in the serving
\* process returns the newly trained model.
C19_LoadAfterCommand ==
    (Loaded /\ resp.cmd # None /\ resp.pre[3] # None) =>
        resp.loaded = "ok" /\ resp.model = resp.cmd

ServingOps == {"load", "predict", "top_n", "genres", "view"}

\* C20: no request-serving operation trains or touches the persisted
\* artifacts; the only engine state one may change is the cache slot, from
\* empty to the model it loaded.
C20_ServingFrame ==
    [][resp'.op \in ServingOps =>
          /\ localFile' = localFile
          /\ storageObj' = storageObj
          /\ trainSeq' = trainSeq
          /\ \/ cachedModel' = cachedModel
             \/ /\ cachedModel = None
                /\ cachedModel' \in {localFile, storageObj}
                /\ cachedModel' = resp'.model]_vars

C20_Witness ==
    /\ resp.op = "view" /\ resp.status = "ok"
    /\ resp.pre[3] = None /\ cachedModel # None
    /\ localFile = resp.pre[1] /\ storageObj = resp.pre[2]

\* The stored average is the mean of the movie's scores to two decimals
\* (whatever the rounding of a half), and 0 without rows.
AverageAccurate(m) ==
    LET S == {r \in ratings : r.movie = m}
        d == 10 * SumScores(S) - avgRating[m] * Cardinality(S)
    IN  IF S = {} THEN avgRating[m] = 0
        ELSE 0 - Cardinality(S) <= 2 * d /\ 2 * d <= Cardinality(S)

\* C15: after any sequence of completed rating operations (rate, POST
\* /ratings/, PATCH and DELETE /ratings/<id>/), none of whose recomputations
\* raised, every movie's average_rating is the mean of the scores of its
\* current Rating rows, and 0 for a movie without rows.
C15_AverageIsMean ==
    ~anyFailed => \A m \in Movies : AverageAccurate(m)

\* C16: a Rating write and the recomputation of the average take effect
\* together: when the recomputation fails the Rating change is not visible.
C16_WriteAndAverageTogether ==
    (resp.op \in {"rate", "create", "patch", "delete"} /\ resp.fault # "none") =>
        ratings = resp.snap

\* C18: there is at most one Rating row per (user, movie), and a submission
\* for an already rated pair, through rate or POST /ratings/, succeeds and
\* replaces the pair's score.
C18_OneRowResubmitReplaces ==
    /\ \A r1, r2 \in ratings :
          (r1.user = r2.user /\ r1.movie = r2.movie) => r1 = r2
    /\ (resp.op \in {"rate", "create"} /\ resp.status # "invalid"
          /\ resp.fault = "none"
          /\ \E r \in resp.snap : r.user = resp.user /\ r.movie = resp.movie) =>
          /\ resp.status = "ok"
          /\ [user |-> resp.user, movie |-> resp.movie, score |-> resp.score]
                \in ratings

\* C17: when rating writes for the same movie by different users overlap,
\* then once all of them have committed the movie's average_rating is the
\* mean over all committed ratings, under every interleaving.
C17_ConcurrentAverage ==
    (\A w \in Writers : wpc[w] = "done") => AverageAccurate(HotMovie)

KnownItem(algo, mid) == \E r \in algo.snap : MovielensId(r.movie) = mid

C22_LocalThenStorage ==
    (Loaded /\ resp.pre[3] = None) =>
        /\ resp.reads = IF resp.pre[1] # NoFile THEN {"local"} ELSE {"storage"}
        /\ resp.loaded = "ok" =>
              /\ resp.model = IF resp.pre[1] # NoFile THEN resp.pre[1]
                              ELSE resp.pre[2]
              /\ cachedModel = resp.model
        /\ (resp.pre[1] = NoFile /\ resp.pre[2] \notin {NoFile, Partial}) =>
              resp.loaded = "ok" /\ resp.model = resp.pre[2]

C22_Witness ==
    /\ resp.op = "load" /\ resp.loaded = "ok"
    /\ resp.pre[3] = None /\ resp.pre[1] = NoFile
    /\ resp.reads = {"storage"}
    /\ cachedModel = resp.pre[2]

\* C26: whenever the cache slot is non-empty the cached model is the model
\* stored in the local file, also after a train_and_save_model that fails
\* once the local file is written: a call that starts with slot and file
\* equal ends with the slot empty or equal to the file.
C26_CacheMatchesLocal ==
    (resp.op = "train" /\ resp.pre[3] # None /\ resp.pre[3] = resp.pre[1]
        /\ cachedModel # None) =>
        cachedModel = localFile

\* C23: a successful PATCH /ratings/<id>/ changes only that rating's score:
\* the row keeps its user and its movie, and every other row is untouched.
C23_PatchOnlyScore ==
    (resp.op = "patch" /\ resp.status = "ok") =>
        \E old \in resp.snap : \E new \in ratings :
            /\ old.user = resp.user /\ old.movie = resp.movie
            /\ new.user = old.user /\ new.movie = old.movie
            /\ resp.snap \ {old} = ratings \ {new}

\* C24: while a genre's movie set does not change, the batches of successive
\* GET /genres/ calls, from offset 0 until the offset wraps back to 0, are
\* consecutive slices of the genre's movies in descending average_rating:
\* together they hold every movie of the genre exactly once.
C24_FullCycleOnce ==
    \A g \in ShelfGenres :
        (resp.op = "genre_list" /\ genreClean[g] /\ genreOffset[g] = 0
            /\ genreTotal[g] > 0) =>
            LET s == genreShown[g] IN
            /\ Len(s) = genreTotal[g]
            /\ {s[i] : i \in 1..Len(s)} = 1..genreTotal[g]
            /\ \A i, j \in 1..Len(s) : i < j => ShelfAvg(s[i]) >= ShelfAvg(s[j])

\* C30: GET /genres/ returns a non-empty batch for every genre that has a
\* movie, whatever calls, additions and removals came before.
C30_NonEmptyBatch ==
    resp.op = "genre_list" =>
        \A g \in ShelfGenres : genreTotal[g] > 0 => resp.result[g] # <<>>

\* C25: send_password_reset_email is retried after every failed send, at
\* most 3 times: at most 4 send attempts in all, none after a successful
\* one; for a missing user or a user without email the task returns without
\* sending and without retrying.
C25_BoundedRetries ==
    /\ \A t \in Tasks :
          /\ mailAttempts[t] <= 4
          /\ mailRetries[t] <= 3
          /\ mailSent[t] <= 1
          /\ mailSent[t] = 1 => mailPc[t] = "done"
          /\ mailPc[t] = "failed" => mailAttempts[t] = 4
          /\ mailPc[t] = "queued" => mailRetries[t] = mailAttempts[t] - mailSent[t]
    /\ resp.op = "mail_run" =>
          LET t == resp.task IN
          IF resp.user \notin users \/ ~HasEmail(resp.user)
          THEN /\ resp.status = "skipped"
               /\ mailAttempts[t] = resp.tries
               /\ mailRetries[t] = resp.count
          ELSE /\ mailAttempts[t] = resp.tries + 1
               /\ resp.status = "queued" =>
                     mailRetries[t] = resp.count + 1 /\ mailSent[t] = 0
               /\ resp.status = "failed" => resp.count = 3

C25_Witness ==
    /\ resp.op = "mail_run" /\ resp.status = "failed"
    /\ mailAttempts[resp.task] = 4
    /\ \E t \in Tasks : mailPc[t] = "done" /\ mailAttempts[t] = 3

\* C27: predict_rating and get_top_n_recommendations query the model with
\* the identifiers it was trained on: for a user and a movie that both occur
\* in the training snapshot, the keys passed to predict are the keys of that
\* user and of that movie in the training frame.
C27_QueryKeysAreTrainingKeys ==
    (resp.op \in {"predict", "top_n"} /\ resp.loaded = "ok") =>
        \A i \in 1..Len(resp.result) :
            LET m == resp.result[i][1] IN
            (/\ \E r \in resp.model.snap : r.user = resp.user
             /\ \E r \in resp.model.snap : r.movie = m) =>
                /\ QueryUserKey(resp.user) = FrameUserKey(resp.user)
                /\ QueryItemKey(m) = FrameItemKey(m)

\* C28: every score the Rating store accepts lies inside the rating scale
\* the trainer's Reader is configured with.
C28_StoredScoresInScale ==
    \A r \in ratings : RatingScaleMin <= r.score /\ r.score <= RatingScaleMax

\* C29: RecommendMoviesView.get answers successfully, with an empty list,
\* when the chosen strategy yields no recommendation (the model, where one is
\* needed, having loaded).
C29_EmptyListIsSuccess ==
    (resp.op = "view" /\ resp.loaded # "error" /\ resp.result = <<>>) =>
        resp.status = "ok"

====
